---- MODULE Spec2Model ----
(***************************************************************************)
(* Model of scripts/keyboard_to_midi.py: the pynput listener delivers      *)
(* key-down / key-up events one at a time to on_press / on_release, which  *)
(* update the module-level session state and send MIDI messages to the     *)
(* virtual output port.                                                    *)
(***************************************************************************)
EXTENDS Integers, Sequences, FiniteSets, TLC

\* ------------------------------------------------------------------ bounds

\* Number of listener events handled in one run of Spec.
MaxEvents == 6

\* Number of listener events handled in one run of SpecMod (modifier keys only).
MaxModEvents == 17

\* Number of listener events handled in one run of SpecOct (octave controls
\* and note keys only).
MaxOctEvents == 7

\* Number of iterations after which a run with the argument 'forever' is cut
\* off in SpecPlay.
MaxForeverIterations == 3

\* ------------------------------------------------------- input alphabet

\* Keys whose pynput object has no usable .char (Key enum members).
SpecialKeys == {"esc", "shift"}

\* Character keys whose key-down the listener delivers in Spec: three mapped
\* note keys (the lowest, the one an octave above it, the highest), one of
\* them also in upper case, both octave and both velocity controls, one
\* pitch-bend control and one unmapped character.
CharKeys == {"a", "A", "k", "'", "z", "x", "c", "v", "n", "q"}

Keys == CharKeys \cup SpecialKeys

\* Keys whose key-up the listener delivers in Spec: the note keys, one
\* control, the unmapped character and the special keys.
UpKeys == {"a", "A", "k", "'", "x", "q"} \cup SpecialKeys

\* The modifier controls (velocity down/up, pitch bend down/up) of SpecMod.
ModKeys == {"c", "v", "b", "n"}

\* The keys of SpecOct: both octave controls and the lowest and highest
\* note keys (key-down), the two note keys (key-up).
OctKeys == {"z", "x", "a", "'"}
OctUpKeys == {"a", "'"}

\* ------------------------------------------------------ program constants

key_to_note ==
    ( "a" :> 60 @@ "s" :> 62 @@ "d" :> 64 @@ "f" :> 65 @@ "g" :> 67 @@ "h" :> 69
   @@ "j" :> 71 @@ "k" :> 72 @@ "l" :> 74 @@ ";" :> 76 @@ "'" :> 77
   @@ "w" :> 61 @@ "e" :> 63 @@ "t" :> 66 @@ "y" :> 68 @@ "u" :> 70
   @@ "o" :> 73 @@ "p" :> 75 )

InitOctaveShift == 0
InitVelocity == 100
InitPitchBend == 0

MidiNoteMin == 0
MidiNoteMax == 127
VelocityMin == 0
VelocityMax == 127
VelocityStep == 10
PitchBendMin == -8192
PitchBendMax == 8191
PitchBendStep == 512
SemitonesPerOctave == 12

\* ------------------------------------------------------------- helpers

Min2(a, b) == IF a <= b THEN a ELSE b
Max2(a, b) == IF a >= b THEN a ELSE b

NoteValues == {key_to_note[k] : k \in DOMAIN key_to_note}
MinBaseNote == CHOOSE n \in NoteValues : \A m \in NoteValues : n <= m
MaxBaseNote == CHOOSE n \in NoteValues : \A m \in NoteValues : n >= m

\* str.lower() on the characters of the input alphabet.
UpperToLower ==
    ( "A" :> "a" @@ "S" :> "s" @@ "D" :> "d" @@ "F" :> "f" @@ "G" :> "g"
   @@ "H" :> "h" @@ "J" :> "j" @@ "K" :> "k" @@ "L" :> "l" @@ "W" :> "w"
   @@ "E" :> "e" @@ "T" :> "t" @@ "Y" :> "y" @@ "U" :> "u" @@ "O" :> "o"
   @@ "P" :> "p" @@ "Z" :> "z" @@ "X" :> "x" @@ "C" :> "c" @@ "V" :> "v"
   @@ "B" :> "b" @@ "N" :> "n" @@ "Q" :> "q" @@ "R" :> "r" @@ "I" :> "i"
   @@ "M" :> "m" )

lower(c) == IF c \in DOMAIN UpperToLower THEN UpperToLower[c] ELSE c

\* key.char exists (no AttributeError) exactly for character keys.
has_char(key) == key \notin SpecialKeys

\* mido.Message constructors.
NoteOnMsg(n, v) == [type |-> "note_on", note |-> n, velocity |-> v]
NoteOffMsg(n, v) == [type |-> "note_off", note |-> n, velocity |-> v]
PitchWheelMsg(p) == [type |-> "pitchwheel", pitch |-> p]

\* All orders in which `for note in list(S)` can visit the set S.
RECURSIVE Orders(_)
Orders(S) ==
    IF S = {} THEN {<<>>}
    ELSE UNION {{<<x>> \o o : o \in Orders(S \ {x})} : x \in S}

\* ----------------------------------------------------------------- state

VARIABLES
    octave_shift,   \* module global octave_shift
    velocity,       \* module global velocity
    pitch_bend,     \* module global pitch_bend
    pressed_notes,  \* module global pressed_notes (a set of note numbers)
    sent,           \* every message passed to outport.send, in order
    running,        \* the listener is still delivering events
    last,           \* history: the last event handled
    pre,            \* history: the session state before the last event
    held,           \* history: mapped note keys that are physically down
    onCount,        \* history: note_on sent per key since its last key-up
    nEvents,        \* history: number of events handled
    script,         \* playback: which script runs ("none" in the keyboard program)
    argv,           \* playback: sys.argv, each string a sequence of characters
    iterations,     \* playback: <<>> for None, <<n>> for the integer n
    count,          \* playback: the loop counter
    idx,            \* playback: position of the for loop in the note list
    pc              \* playback: the statement the script is at

progVars == <<octave_shift, velocity, pitch_bend, pressed_notes, sent, running>>
playVars == <<script, argv, iterations, count, idx, pc>>
sessionVars == <<octave_shift, velocity, pitch_bend, pressed_notes, running,
                 last, pre, held, onCount, nEvents>>
vars == <<octave_shift, velocity, pitch_bend, pressed_notes, sent, running,
          last, pre, held, onCount, nEvents,
          script, argv, iterations, count, idx, pc>>

\* The mapped note keys of the input alphabet, lower-cased.
NoteKeys == {lower(c) : c \in CharKeys} \cap DOMAIN key_to_note

Snapshot ==
    [octave_shift |-> octave_shift, velocity |-> velocity,
     pitch_bend |-> pitch_bend, pressed_notes |-> pressed_notes,
     sentLen |-> Len(sent)]

\* --------------------------------------------------------- the handlers

\* Mutant: the octave shift is left out of the adjustment.
adjust_note_with_octave_noShift(note) ==
    Max2(MidiNoteMin, Min2(MidiNoteMax, note))

adjust_note_with_octave(note) ==
    LET adjusted_note == note + (octave_shift * SemitonesPerOctave)
    IN  Max2(MidiNoteMin, Min2(MidiNoteMax, adjusted_note))

\* Mutant: the duplicate guard is missing.
NoteOnGuard_always(note) == TRUE

\* if note not in pressed_notes  (on_press, line 37)
NoteOnGuard(note) == note \notin pressed_notes

\* Mutant: the held-note test of on_release is missing.
NoteOffGuard_always(note) == TRUE

\* if note in pressed_notes  (on_release, line 75)
NoteOffGuard(note) == note \in pressed_notes

\* Mutant: the lower bound is checked for the current octave, not the next.
CanOctaveDown_current == octave_shift * SemitonesPerOctave + MinBaseNote >= MidiNoteMin

\* Check lower bound (line 42) / upper bound (line 48).
CanOctaveDown == (octave_shift - 1) * SemitonesPerOctave + MinBaseNote >= MidiNoteMin
\* Mutant: the upper bound is checked for the current octave, not the next.
CanOctaveUp_current == octave_shift * SemitonesPerOctave + MaxBaseNote <= MidiNoteMax

CanOctaveUp == (octave_shift + 1) * SemitonesPerOctave + MaxBaseNote <= MidiNoteMax

VelocityDown(v) == Max2(VelocityMin, v - VelocityStep)
\* Mutant: velocity up without the clamp to 127.
VelocityUp_noClamp(v) == v + VelocityStep

VelocityUp(v) == Min2(VelocityMax, v + VelocityStep)
PitchBendDown(p) == Max2(PitchBendMin, p - PitchBendStep)
PitchBendUp(p) == Min2(PitchBendMax, p + PitchBendStep)

\* Mutant: a key-down of a sounding note re-triggers it (note_off, note_on).
PressNote_retrigger(k) ==
    LET note == adjust_note_with_octave(key_to_note[k])
    IN  IF NoteOnGuard(note)
        THEN /\ sent' = Append(sent, NoteOnMsg(note, velocity))
             /\ pressed_notes' = pressed_notes \cup {note}
             /\ UNCHANGED <<octave_shift, velocity, pitch_bend, running>>
        ELSE /\ sent' = sent \o <<NoteOffMsg(note, velocity), NoteOnMsg(note, velocity)>>
             /\ UNCHANGED <<octave_shift, velocity, pitch_bend, pressed_notes, running>>

\* on_press, lines 35-40: a mapped note key.
PressNote(k) ==
    LET note == adjust_note_with_octave(key_to_note[k])
    IN  IF NoteOnGuard(note)
        THEN /\ sent' = Append(sent, NoteOnMsg(note, velocity))
             /\ pressed_notes' = pressed_notes \cup {note}
             /\ UNCHANGED <<octave_shift, velocity, pitch_bend, running>>
        ELSE UNCHANGED progVars

\* Mutant: octave down without the lower-bound check.
OctaveDown_unchecked ==
    /\ octave_shift' = octave_shift - 1
    /\ UNCHANGED <<velocity, pitch_bend, pressed_notes, sent, running>>

\* on_press, lines 41-46 and 47-52: the octave controls.
OctaveDown ==
    IF CanOctaveDown
    THEN /\ octave_shift' = octave_shift - 1
         /\ UNCHANGED <<velocity, pitch_bend, pressed_notes, sent, running>>
    ELSE UNCHANGED progVars

OctaveUp ==
    IF CanOctaveUp
    THEN /\ octave_shift' = octave_shift + 1
         /\ UNCHANGED <<velocity, pitch_bend, pressed_notes, sent, running>>
    ELSE UNCHANGED progVars

\* on_press, lines 53-58: the velocity controls.
SetVelocity(v) ==
    /\ velocity' = v
    /\ UNCHANGED <<octave_shift, pitch_bend, pressed_notes, sent, running>>

\* Mutant: the pitchwheel message is sent only when the value changed.
SetPitchBend_onlyOnChange(p) ==
    /\ pitch_bend' = p
    /\ sent' = IF p # pitch_bend THEN Append(sent, PitchWheelMsg(p)) ELSE sent
    /\ UNCHANGED <<octave_shift, velocity, pressed_notes, running>>

\* on_press, lines 59-66: the pitch-bend controls.
SetPitchBend(p) ==
    /\ pitch_bend' = p
    /\ sent' = Append(sent, PitchWheelMsg(p))
    /\ UNCHANGED <<octave_shift, velocity, pressed_notes, running>>

\* Mutant: Esc is also handled on key-down and stops the listener there.
on_press_escQuits(key) ==
    IF ~has_char(key)
    THEN /\ running' = (key # "esc")
         /\ UNCHANGED <<octave_shift, velocity, pitch_bend, pressed_notes, sent>>
    ELSE LET k == lower(key)
         IN  CASE k \in DOMAIN key_to_note -> PressNote(k)
               [] k = "z" -> OctaveDown
               [] k = "x" -> OctaveUp
               [] k = "c" -> SetVelocity(VelocityDown(velocity))
               [] k = "v" -> SetVelocity(VelocityUp(velocity))
               [] k = "b" -> SetPitchBend(PitchBendDown(pitch_bend))
               [] k = "n" -> SetPitchBend(PitchBendUp(pitch_bend))
               [] OTHER -> UNCHANGED progVars

on_press(key) ==
    IF ~has_char(key)
    THEN UNCHANGED progVars                       \* except AttributeError: pass
    ELSE LET k == lower(key)
         IN  CASE k \in DOMAIN key_to_note -> PressNote(k)
               [] k = "z" -> OctaveDown
               [] k = "x" -> OctaveUp
               [] k = "c" -> SetVelocity(VelocityDown(velocity))
               [] k = "v" -> SetVelocity(VelocityUp(velocity))
               [] k = "b" -> SetPitchBend(PitchBendDown(pitch_bend))
               [] k = "n" -> SetPitchBend(PitchBendUp(pitch_bend))
               [] OTHER -> UNCHANGED progVars

\* Mutant: the note_off is sent but the note stays in pressed_notes.
ReleaseNote_keeps(k) ==
    LET note == adjust_note_with_octave(key_to_note[k])
    IN  IF NoteOffGuard(note)
        THEN /\ sent' = Append(sent, NoteOffMsg(note, velocity))
             /\ UNCHANGED <<octave_shift, velocity, pitch_bend, pressed_notes, running>>
        ELSE UNCHANGED progVars

\* Mutant: the note_off is built without the velocity argument, so it
\* carries mido's default release velocity.
ReleaseNote_defaultVelocity(k) ==
    LET note == adjust_note_with_octave(key_to_note[k])
    IN  IF NoteOffGuard(note)
        THEN /\ sent' = Append(sent, NoteOffMsg(note, 64))
             /\ pressed_notes' = pressed_notes \ {note}
             /\ UNCHANGED <<octave_shift, velocity, pitch_bend, running>>
        ELSE UNCHANGED progVars

\* on_release, lines 73-78: a mapped note key.
ReleaseNote(k) ==
    LET note == adjust_note_with_octave(key_to_note[k])
    IN  IF NoteOffGuard(note)
        THEN /\ sent' = Append(sent, NoteOffMsg(note, velocity))
             /\ pressed_notes' = pressed_notes \ {note}
             /\ UNCHANGED <<octave_shift, velocity, pitch_bend, running>>
        ELSE UNCHANGED progVars

\* Mutant: the cleanup loop stops one note early.
AllNotesOff_skipLast(order) ==
    [i \in 1..(Len(order) - 1) |-> NoteOffMsg(order[i], velocity)]

\* The messages of the loop of lines 82-83, visiting the notes in `order`.
AllNotesOff(order) == [i \in 1..Len(order) |-> NoteOffMsg(order[i], velocity)]

\* on_release, lines 80-85: Esc sends the note-offs and returns False.
Quit ==
    /\ \E order \in Orders(pressed_notes) : sent' = sent \o AllNotesOff(order)
    /\ running' = FALSE
    /\ UNCHANGED <<octave_shift, velocity, pitch_bend, pressed_notes>>

\* Mutant: the test `key == keyboard.Key.esc` is missing, so the key-up of
\* any special key runs the cleanup and stops the listener.
on_release_anySpecial(key) ==
    IF ~has_char(key)
    THEN Quit
    ELSE LET k == lower(key)
         IN  IF k \in DOMAIN key_to_note THEN ReleaseNote(k)
             ELSE UNCHANGED progVars

on_release(key) ==
    IF ~has_char(key)
    THEN IF key = "esc" THEN Quit ELSE UNCHANGED progVars
    ELSE LET k == lower(key)
         IN  IF k \in DOMAIN key_to_note THEN ReleaseNote(k)
             ELSE UNCHANGED progVars

\* ------------------------------------------------------------- actions

SentBy(key) ==
    IF has_char(key) /\ lower(key) \in DOMAIN key_to_note
    THEN Len(sent') - Len(sent) ELSE 0

\* The listener calls on_press(key).
Press(key) ==
    /\ running
    /\ on_press(key)
    /\ last' = [dir |-> "down", key |-> key]
    /\ pre' = Snapshot
    /\ held' = IF has_char(key) /\ lower(key) \in NoteKeys
               THEN held \cup {lower(key)} ELSE held
    /\ onCount' = IF has_char(key) /\ lower(key) \in NoteKeys
                  THEN [onCount EXCEPT ![lower(key)] = @ + SentBy(key)]
                  ELSE onCount
    /\ nEvents' = nEvents + 1
    /\ UNCHANGED playVars

\* The listener calls on_release(key).
Release(key) ==
    /\ running
    /\ on_release(key)
    /\ last' = [dir |-> "up", key |-> key]
    /\ pre' = Snapshot
    /\ held' = IF has_char(key) THEN held \ {lower(key)} ELSE held
    /\ onCount' = IF has_char(key) /\ lower(key) \in NoteKeys
                  THEN [onCount EXCEPT ![lower(key)] = 0]
                  ELSE onCount
    /\ nEvents' = nEvents + 1
    /\ UNCHANGED playVars

KeyDown(key) == nEvents < MaxEvents /\ Press(key)
KeyUp(key) == nEvents < MaxEvents /\ Release(key)
ModKeyDown(key) == nEvents < MaxModEvents /\ Press(key)

OctKeyDown(key) == nEvents < MaxOctEvents /\ Press(key)
OctKeyUp(key) == nEvents < MaxOctEvents /\ Release(key)

\* The keyboard program after its module-level statements.
SessionInit ==
    /\ octave_shift = InitOctaveShift
    /\ velocity = InitVelocity
    /\ pitch_bend = InitPitchBend
    /\ pressed_notes = {}
    /\ sent = <<>>
    /\ running = TRUE
    /\ last = [dir |-> "none", key |-> "none"]
    /\ pre = Snapshot
    /\ held = {}
    /\ onCount = [k \in NoteKeys |-> 0]
    /\ nEvents = 0

\* No playback script is running.
PlayIdle ==
    /\ script = "none"
    /\ argv = <<>>
    /\ iterations = <<>>
    /\ count = 0
    /\ idx = 0
    /\ pc = "idle"

Init == SessionInit /\ PlayIdle

Next ==
    \/ \E key \in Keys : KeyDown(key)
    \/ \E key \in UpKeys : KeyUp(key)

Spec == Init /\ [][Next]_vars

NextMod == \E key \in ModKeys : ModKeyDown(key)

SpecMod == Init /\ [][NextMod]_vars

NextOct ==
    \/ \E key \in OctKeys : OctKeyDown(key)
    \/ \E key \in OctUpKeys : OctKeyUp(key)

SpecOct == Init /\ [][NextOct]_vars

\* ------------------------------------------------- the playback scripts
\* scripts/send_scale.py and scripts/send_single_note.py: parse sys.argv,
\* then send note_on / note_off pairs in a counted or endless loop.

Scripts == {"send_scale", "send_single_note"}

\* The command-line arguments tried (sys.argv[1:]): none, integers with and
\* without sign or leading zero, 'forever' in three letter cases, and a
\* string that is neither.
ArgLists ==
    { <<>>,
      << <<"0">> >>, << <<"1">> >>, << <<"2">> >>, << <<"3">> >>,
      << <<"-", "1">> >>, << <<"+", "2">> >>, << <<"0", "2">> >>,
      << <<"f", "o", "r", "e", "v", "e", "r">> >>,
      << <<"F", "O", "R", "E", "V", "E", "R">> >>,
      << <<"F", "o", "r", "e", "v", "e", "r">> >>,
      << <<"4", "e", "v", "e", "r">> >> }

Forever == <<"f", "o", "r", "e", "v", "e", "r">>

\* str.lower() on a string.
LowerStr(s) == [i \in 1..Len(s) |-> lower(s[i])]

DigitValue ==
    ( "0" :> 0 @@ "1" :> 1 @@ "2" :> 2 @@ "3" :> 3 @@ "4" :> 4
   @@ "5" :> 5 @@ "6" :> 6 @@ "7" :> 7 @@ "8" :> 8 @@ "9" :> 9 )

IsDigits(s) == Len(s) >= 1 /\ \A i \in 1..Len(s) : s[i] \in DOMAIN DigitValue

RECURSIVE DigitsToInt(_)
DigitsToInt(s) ==
    IF s = <<>> THEN 0
    ELSE 10 * DigitsToInt(SubSeq(s, 1, Len(s) - 1)) + DigitValue[s[Len(s)]]

\* int(s) for a string of an optional sign and decimal digits: <<n>>, or
\* <<>> where int raises ValueError.
ParseInt(s) ==
    IF s # <<>> /\ s[1] \in {"+", "-"}
    THEN IF IsDigits(Tail(s))
         THEN <<(IF s[1] = "-" THEN -1 ELSE 1) * DigitsToInt(Tail(s))>>
         ELSE <<>>
    ELSE IF IsDigits(s) THEN <<DigitsToInt(s)>> ELSE <<>>

\* The notes one iteration plays: the list `notes` of send_scale.py, the
\* single note of send_single_note.py.
PlayNotes ==
    IF script = "send_scale" THEN <<60, 62, 64, 65, 67, 69, 71, 72>> ELSE <<60>>

PlayVelocity == 100

\* Mutant: the loop test is `count <= iterations`.
LoopCondition_inclusive == iterations = <<>> \/ count <= iterations[1]

\* while iterations is None or count < iterations
LoopCondition == iterations = <<>> \/ count < iterations[1]

\* Lines 14-17 and `count = 0`.
ParseArgs ==
    /\ pc = "start"
    /\ IF Len(argv) > 1 /\ LowerStr(argv[2]) = Forever
       THEN iterations' = <<>> /\ pc' = "loop"
       ELSE IF Len(argv) > 1
            THEN IF ParseInt(argv[2]) = <<>>
                 THEN iterations' = <<>> /\ pc' = "error"      \* ValueError
                 ELSE iterations' = ParseInt(argv[2]) /\ pc' = "loop"
            ELSE iterations' = <<1>> /\ pc' = "loop"
    /\ count' = 0
    /\ UNCHANGED <<script, argv, idx, sent>>
    /\ UNCHANGED sessionVars

\* The while test, and `count += 1` when the body is entered.
LoopTest ==
    /\ pc = "loop"
    /\ iterations = <<>> => count < MaxForeverIterations
    /\ IF LoopCondition
       THEN count' = count + 1 /\ idx' = 1 /\ pc' = "on"
       ELSE pc' = "done" /\ UNCHANGED <<count, idx>>
    /\ UNCHANGED <<script, argv, iterations, sent>>
    /\ UNCHANGED sessionVars

\* outport.send(note_on), then the sleep that holds the note.
PlayNoteOn ==
    /\ pc = "on"
    /\ sent' = Append(sent, NoteOnMsg(PlayNotes[idx], PlayVelocity))
    /\ pc' = "off"
    /\ UNCHANGED <<script, argv, iterations, count, idx>>
    /\ UNCHANGED sessionVars

\* Mutant: the note_off of the last note of an iteration is not sent.
PlayNoteOff_dropLast ==
    /\ pc = "off"
    /\ IF idx < Len(PlayNotes)
       THEN /\ sent' = Append(sent, NoteOffMsg(PlayNotes[idx], PlayVelocity))
            /\ idx' = idx + 1 /\ pc' = "on"
       ELSE /\ sent' = sent
            /\ idx' = idx /\ pc' = "loop"
    /\ UNCHANGED <<script, argv, iterations, count>>
    /\ UNCHANGED sessionVars

\* outport.send(note_off), the sleep, and the step of the for loop (the
\* next note, or back to the while test after the last one).
PlayNoteOff ==
    /\ pc = "off"
    /\ sent' = Append(sent, NoteOffMsg(PlayNotes[idx], PlayVelocity))
    /\ IF idx < Len(PlayNotes)
       THEN idx' = idx + 1 /\ pc' = "on"
       ELSE idx' = idx /\ pc' = "loop"
    /\ UNCHANGED <<script, argv, iterations, count>>
    /\ UNCHANGED sessionVars

\* A script started with some arguments; the keyboard program's variables
\* are at rest.
InitPlay ==
    /\ SessionInit
    /\ script \in Scripts
    /\ argv \in {<<<<"p", "y">>>> \o a : a \in ArgLists}
    /\ iterations = <<>>
    /\ count = 0
    /\ idx = 0
    /\ pc = "start"

NextPlay ==
    \/ ParseArgs
    \/ LoopTest
    \/ PlayNoteOn
    \/ PlayNoteOff

\* A running script always executes its next statement.
SpecPlay == InitPlay /\ [][NextPlay]_vars /\ WF_vars(NextPlay)

\* The messages sent by the last event handled.
Out == SubSeq(sent, pre.sentLen + 1, Len(sent))

\* ------------------------------------------------- reading the history

IsNoteMsg(m) == m.type \in {"note_on", "note_off"}

\* The last event handled was a key-down / key-up of character c (any case).
LastDown(c) == last.dir = "down" /\ has_char(last.key) /\ lower(last.key) = c
LastUp(c) == last.dir = "up" /\ has_char(last.key) /\ lower(last.key) = c
LastQuit == last.dir = "up" /\ last.key = "esc"

\* ---------------------------------------------------------------- claims

\* C1: whenever every mapped note key that was pressed has been released
\* again (and the session has not quit), pressed_notes is empty.
C1_NoOrphanedNotes == (running /\ held = {}) => pressed_notes = {}

\* C2: two note_on messages for the same note number are always separated
\* by a note_off for that note number.
C2_NoDuplicateNoteOn ==
    \A i, j \in 1..Len(sent) :
        (/\ i < j
         /\ sent[i].type = "note_on"
         /\ sent[j].type = "note_on"
         /\ sent[i].note = sent[j].note)
        => \E m \in (i+1)..(j-1) :
              sent[m].type = "note_off" /\ sent[m].note = sent[i].note

\* C2 witness: a repeated key-down of a sounding note was suppressed, and a
\* note was sounded twice with its note_off in between.
C2_Witness ==
    /\ \E i, j \in 1..Len(sent) :
          i < j /\ sent[i].type = "note_on" /\ sent[j].type = "note_on"
                /\ sent[i].note = sent[j].note
    /\ \E k \in NoteKeys : LastDown(k)
    /\ Out = <<>>

\* C3: while key k is held (one or more key-down(k), no key-up(k) since),
\* exactly one note_on has been sent on behalf of k.
C3_OneNoteOnWhileHeld == \A k \in NoteKeys : k \in held => onCount[k] = 1

\* C4: key-down(k) with k's note not sounding, immediately followed by
\* key-up(k), restores pressed_notes and sends exactly note_on then note_off
\* for the same adjusted note.
C4_PressReleaseRoundTrip ==
    [][\A k \in NoteKeys :
         LET n == key_to_note[k] + SemitonesPerOctave * octave_shift
         IN  (/\ LastDown(k)
              /\ n \notin pre.pressed_notes
              /\ last'.dir = "up" /\ lower(last'.key) = k)
             => /\ pressed_notes' = pre.pressed_notes
                /\ Out = <<NoteOnMsg(n, velocity)>>
                /\ Out' = <<NoteOffMsg(n, velocity)>>]_vars

\* C4 witness: a key-down / key-up pair of one key has just been handled
\* while another note was sounding.
C4_Witness ==
    /\ LastUp("a")
    /\ Len(sent) = 3
    /\ sent[2].type = "note_on" /\ sent[3].type = "note_off"
    /\ sent[2].note = sent[3].note
    /\ pre.pressed_notes = pressed_notes \cup {sent[3].note}
    /\ pressed_notes # {}
    /\ nEvents = 3

\* C5 as stated: every event sends at most one message.
C5_AtMostOneMessage == Len(Out) <= 1

\* C5 amended: every event other than the quit key-up sends at most one
\* message; the quit key-up sends one message per note in pressed_notes.
C5_MessagesPerEvent ==
    /\ ~LastQuit => Len(Out) <= 1
    /\ LastQuit => Len(Out) = Cardinality(pre.pressed_notes)

\* C5 witness: the quit key-up sent more than one message.
C5_Witness == LastQuit /\ Len(Out) >= 2

\* C6: the quit key-up sends exactly one note_off(note, velocity) per note
\* of pressed_notes and nothing else, then the listener stops; afterwards
\* every note_on in the stream has a later note_off for its note.
C6_QuitCleanup ==
    LastQuit =>
        /\ ~running
        /\ Len(Out) = Cardinality(pre.pressed_notes)
        /\ {Out[i] : i \in 1..Len(Out)}
              = {NoteOffMsg(x, velocity) : x \in pre.pressed_notes}
        /\ velocity = pre.velocity
        /\ \A i \in 1..Len(sent) :
              sent[i].type = "note_on" =>
                 \E j \in (i+1)..Len(sent) :
                    sent[j].type = "note_off" /\ sent[j].note = sent[i].note

\* C6 witness: quit with three notes sounding, one of them orphaned by an
\* octave change.
C6_Witness ==
    LastQuit /\ Cardinality(pre.pressed_notes) >= 3 /\ held # {}

\* C7: an octave control pressed where one more step would take the highest
\* base note above 127 (the lowest below 0) leaves octave_shift alone, and
\* every note message sent carries a note number in 0..127.
C7_OctaveBoundary ==
    /\ (LastDown("x") /\ (pre.octave_shift + 1) * 12 + MaxBaseNote > 127)
          => octave_shift = pre.octave_shift
    /\ (LastDown("z") /\ (pre.octave_shift - 1) * 12 + MinBaseNote < 0)
          => octave_shift = pre.octave_shift
    /\ octave_shift * 12 + MaxBaseNote <= 127
    /\ octave_shift * 12 + MinBaseNote >= 0
    /\ \A i \in 1..Len(sent) : IsNoteMsg(sent[i]) => sent[i].note \in 0..127

\* C7 witness: the highest key sounded in the highest octave, then one more
\* octave-up was pressed.
C7_Witness ==
    /\ LastDown("x")
    /\ pre.octave_shift = 4
    /\ \E i \in 1..Len(sent) : sent[i] = NoteOnMsg(125, velocity)

\* C8: an octave control pressed at the boundary changes nothing, sends
\* nothing and does not stop the listener.
C8_RejectedOctaveIsNoOp ==
    (\/ LastDown("x") /\ (pre.octave_shift + 1) * 12 + MaxBaseNote > 127
     \/ LastDown("z") /\ (pre.octave_shift - 1) * 12 + MinBaseNote < 0)
    => /\ octave_shift = pre.octave_shift
       /\ velocity = pre.velocity
       /\ pitch_bend = pre.pitch_bend
       /\ pressed_notes = pre.pressed_notes
       /\ Out = <<>>
       /\ running

\* C8 witness: octave-down pressed in the lowest octave.
C8_Witness == LastDown("z") /\ pre.octave_shift = -5

\* C9: velocity stays in 0..127 and pitch_bend in -8192..8191 under any
\* sequence of modifier controls, which move them by 10 and 512 or to the
\* limit, and every pitchwheel message carries a pitch in -8192..8191.
C9_Saturating ==
    /\ velocity \in 0..127
    /\ pitch_bend \in -8192..8191
    /\ \A i \in 1..Len(sent) :
          sent[i].type = "pitchwheel" => sent[i].pitch \in -8192..8191
    /\ LastDown("c") => velocity \in {pre.velocity - 10, 0}
    /\ LastDown("v") => velocity \in {pre.velocity + 10, 127}
    /\ LastDown("b") => pitch_bend \in {pre.pitch_bend - 512, -8192}
    /\ LastDown("n") => pitch_bend \in {pre.pitch_bend + 512, 8191}

\* C9 witness: pitch-bend-up pressed at 7680, where one more step of 512
\* would leave the range, after 15 steps up from 0.
C9_Witness ==
    /\ LastDown("n")
    /\ pre.pitch_bend = 7680
    /\ pitch_bend = 8191
    /\ Len(sent) = 16

\* C10: key-down of a mapped key whose note is not sounding sends exactly
\* note_on(base + 12 * octave_shift, velocity); 'a' from the default state
\* gives note_on(60,100) and then note_off(60,100), and after one octave-up
\* gives note_on(72,100).
C10_NoteOnValue ==
    /\ \A k \in NoteKeys :
          LET n == key_to_note[k] + 12 * pre.octave_shift
          IN  (LastDown(k) /\ n \notin pre.pressed_notes)
                 => Out = <<NoteOnMsg(n, pre.velocity)>>
    /\ (nEvents = 1 /\ LastDown("a")) => sent = <<NoteOnMsg(60, 100)>>
    /\ (nEvents = 2 /\ LastUp("a") /\ pre.pressed_notes = {60})
          => sent = <<NoteOnMsg(60, 100), NoteOffMsg(60, 100)>>
    /\ (nEvents = 2 /\ LastDown("a") /\ pre.octave_shift = 1)
          => sent = <<NoteOnMsg(72, 100)>>

\* C10 witness: one accepted octave-up, then key-down 'a'.
C10_Witness ==
    nEvents = 2 /\ LastDown("a") /\ pre.octave_shift = 1 /\ Len(sent) = 1

\* C11: the listener stops exactly at the Esc key-up: after any key-down
\* (Esc included) and after the key-up of any other key it is still running,
\* and after the Esc key-up it is not.
C11_OnlyQuitTerminates ==
    /\ LastQuit => ~running
    /\ ~LastQuit => running
    /\ last.dir = "down" => running

\* C11 witness: the Esc key-up has stopped the listener while a key was
\* still down.
C11_Witness == LastQuit /\ ~running /\ held # {}

\* C11 witness of the other half is the state after an Esc key-down.
C11_EscDownWitness == last = [dir |-> "down", key |-> "esc"] /\ running

\* C12: a key-down of an unmapped character or of a special key, a key-up
\* of a control or unmapped character and a key-up of a special key other
\* than Esc change nothing and send nothing.
C12_UnrecognizedIgnored ==
    (\/ last.dir = "down" /\ last.key \in {"q", "esc", "shift"}
     \/ last.dir = "up" /\ last.key \in {"z", "x", "c", "v", "b", "n", "q", "shift"})
    => /\ octave_shift = pre.octave_shift
       /\ velocity = pre.velocity
       /\ pitch_bend = pre.pitch_bend
       /\ pressed_notes = pre.pressed_notes
       /\ Out = <<>>
       /\ running

\* C12 witness: a Shift key-up while a note is sounding and the modifiers
\* are off their defaults.
C12_Witness ==
    /\ last = [dir |-> "up", key |-> "shift"]
    /\ pressed_notes # {}
    /\ octave_shift # 0
    /\ velocity # 100

\* The last event was a velocity control pressed after the note_on that is
\* the last message of the stream.
VelocityControlAfterNoteOn ==
    /\ (LastDown("c") \/ LastDown("v"))
    /\ Len(sent) >= 1
    /\ sent[Len(sent)].type = "note_on"

\* The next event is the key-up that sends the note_off of that note_on.
NoteOffFollows ==
    /\ last'.dir = "up"
    /\ Len(Out') = 1
    /\ Out'[1].type = "note_off"
    /\ Out'[1].note = sent[Len(sent)].note

C14_ModifierMessages ==
    /\ (LastDown("c") \/ LastDown("v"))
          => /\ Out = <<>>
             /\ octave_shift = pre.octave_shift
             /\ pitch_bend = pre.pitch_bend
             /\ pressed_notes = pre.pressed_notes
             /\ running
    /\ (LastDown("b") \/ LastDown("n"))
          => /\ Out = <<[type |-> "pitchwheel", pitch |-> pitch_bend]>>
             /\ octave_shift = pre.octave_shift
             /\ velocity = pre.velocity
             /\ pressed_notes = pre.pressed_notes
             /\ running

\* C14 witness: pitch-bend-up pressed when pitch_bend was already 8191.
C14_Witness ==
    /\ LastDown("n")
    /\ pre.pitch_bend = 8191
    /\ pitch_bend = 8191
    /\ Len(Out) = 1

\* The notes for which the stream holds a note_on with no later note_off.
Sounding ==
    {sent[i].note : i \in {j \in 1..Len(sent) :
        /\ sent[j].type = "note_on"
        /\ \A m \in (j+1)..Len(sent) :
              ~(sent[m].type = "note_off" /\ sent[m].note = sent[j].note)}}

\* C15: while the listener runs, pressed_notes is exactly the set of notes
\* with a note_on and no later note_off in the stream, and a note_off is
\* only ever sent for a note that was in pressed_notes.
C15_PressedMirrorsStream ==
    /\ running => pressed_notes = Sounding
    /\ \A i \in 1..Len(Out) :
          Out[i].type = "note_off" => Out[i].note \in pre.pressed_notes

\* C15 witness: a key-up found its note absent and sent nothing while two
\* other notes, one of them already released once, are sounding.
C15_Witness ==
    /\ running
    /\ \E k \in NoteKeys : LastUp(k)
    /\ Out = <<>>
    /\ Cardinality(pressed_notes) >= 2
    /\ \E i \in 1..Len(sent) : sent[i].type = "note_off"

\* C16: octave_shift stays in -5..4, base + 12 * octave_shift lies in
\* 0..127 for every key of the table (base notes 60..77), the adjusted note
\* equals that unclamped value, and two different keys never get the same
\* adjusted note at the same octave_shift (the keys have as many adjusted
\* notes as there are keys).
C16_ClampNeverActive ==
    /\ octave_shift \in -5..4
    /\ \A k \in DOMAIN key_to_note : key_to_note[k] \in 60..77
    /\ \A k \in DOMAIN key_to_note :
          /\ key_to_note[k] + 12 * octave_shift \in 0..127
          /\ adjust_note_with_octave(key_to_note[k]) = key_to_note[k] + 12 * octave_shift
    /\ Cardinality({adjust_note_with_octave(key_to_note[k]) : k \in DOMAIN key_to_note})
          = Cardinality(DOMAIN key_to_note)

\* C16 witness: the lowest key sounded in the lowest octave, where its
\* adjusted note is 0.
C16_Witness ==
    /\ octave_shift = -5
    /\ LastDown("a")
    /\ Out = <<[type |-> "note_on", note |-> 0, velocity |-> velocity]>>

\* The integer the command line asks for: 1 without an argument, else the
\* value of the decimal argument.
HasIntegerArg ==
    \/ Len(argv) = 1
    \/ Len(argv) > 1 /\ argv[2] \in {<<"0">>, <<"1">>, <<"2">>, <<"3">>,
                                     <<"-", "1">>, <<"+", "2">>, <<"0", "2">>}

RequestedIterations ==
    CASE Len(argv) = 1 -> 1
      [] Len(argv) > 1 /\ argv[2] = <<"0">> -> 0
      [] Len(argv) > 1 /\ argv[2] = <<"1">> -> 1
      [] Len(argv) > 1 /\ argv[2] \in {<<"2">>, <<"+", "2">>, <<"0", "2">>} -> 2
      [] Len(argv) > 1 /\ argv[2] = <<"3">> -> 3
      [] Len(argv) > 1 /\ argv[2] = <<"-", "1">> -> -1

HasForeverArg ==
    Len(argv) > 1 /\ argv[2] \in {<<"f", "o", "r", "e", "v", "e", "r">>,
                                  <<"F", "O", "R", "E", "V", "E", "R">>,
                                  <<"F", "o", "r", "e", "v", "e", "r">>}

PairsPerIteration == IF script = "send_scale" THEN 8 ELSE 1

\* C17: with an integer argument N (no argument counting as 1) the loop
\* runs exactly max(N, 0) iterations of 8 pairs (scale) or 1 pair (single
\* note) and then ends, sending nothing at all for N <= 0; with 'forever'
\* in any letter case the loop never ends.
C17_LoopTermination ==
    /\ [](HasIntegerArg =>
            LET n == IF RequestedIterations > 0 THEN RequestedIterations ELSE 0
            IN  /\ count <= n
                /\ Len(sent) <= 2 * PairsPerIteration * n
                /\ pc # "error"
                /\ pc = "done" => /\ count = n
                                  /\ Len(sent) = 2 * PairsPerIteration * n)
    /\ [](HasForeverArg => pc \notin {"done", "error"})
    /\ [](HasForeverArg /\ pc = "loop" =>
            Len(sent) = 2 * PairsPerIteration * count)
    /\ (HasIntegerArg /\ pc = "start") ~> (pc = "done")

\* C17 witness: send_scale with the argument 3 has ended after 3 iterations
\* and 24 pairs.
C17_Witness ==
    /\ script = "send_scale"
    /\ Len(argv) > 1 /\ argv[2] = <<"3">>
    /\ pc = "done"
    /\ count = 3
    /\ Len(sent) = 48

\* C17 witness for 'forever': the third iteration of an upper-case FOREVER
\* run has been played and the script is back at the loop test.
C17_ForeverWitness ==
    /\ Len(argv) > 1 /\ argv[2] = <<"F", "O", "R", "E", "V", "E", "R">>
    /\ pc = "loop"
    /\ count = 3

\* The note the i-th message of a playback run is about.
ExpectedPlayNote(i) ==
    IF script = "send_scale"
    THEN <<60, 62, 64, 65, 67, 69, 71, 72>>[(((i - 1) \div 2) % 8) + 1]
    ELSE 60

\* C18: in both scripts every note_on is followed, as the very next
\* message, by the note_off of the same note, both with velocity 100, so at
\* most one note sounds at any time and none when an iteration ends; each
\* send_scale iteration plays 60, 62, 64, 65, 67, 69, 71, 72 in this order.
C18_PlaybackOrdering ==
    /\ \A i \in 1..Len(sent) :
          IF i % 2 = 1
          THEN sent[i] = [type |-> "note_on", note |-> ExpectedPlayNote(i),
                          velocity |-> 100]
          ELSE sent[i] = [type |-> "note_off", note |-> sent[i - 1].note,
                          velocity |-> 100]
    /\ Cardinality(Sounding) <= 1
    /\ Len(sent) % 2 = 1 => pc = "off"
    /\ pc \in {"loop", "done"} => Sounding = {}

\* C18 witness: send_scale holds the last note of its second iteration.
C18_Witness ==
    /\ script = "send_scale"
    /\ pc = "off"
    /\ count = 2
    /\ idx = 8
    /\ Sounding = {72}

====
